---- MODULE Spec2Model ----
(***************************************************************************)
(* Research-job ingestion pipeline of microcrm (src/src/leads): the job    *)
(* state machine, the rate-limited start task, the poller, the response    *)
(* parser and the lead reconciler, as a state machine over the persisted   *)
(* job and lead tables, the start-task queue and the tasks in flight.      *)
(***************************************************************************)
EXTENDS Integers, Sequences, FiniteSets, TLC

(***************************************************************************)
(* Bounds of the model.                                                    *)
(***************************************************************************)
NumCities == 2
MaxJobs == 2
MaxQueue == 2
MaxCalls == 1
PollCalls == 2
MaxRedeliver == 1
MaxStartWorkers == 1
MaxPolls == 1
TicksPerMinute == 1
RaceWorkers == 2
RaceCalls == 2

Cities == 1..NumCities
JobIds == 1..MaxJobs
StartSlots == 1..MaxStartWorkers

(***************************************************************************)
(* ResearchJob.Status (models.py) and the active statuses the uniqueness   *)
(* constraint and the API checks are scoped to.                            *)
(***************************************************************************)
NOT_STARTED == "not_started"
PENDING == "pending"
RUNNING == "running"
COMPLETED == "completed"
FAILED == "failed"

active_statuses == {PENDING, RUNNING}
allowed_statuses == {NOT_STARTED, FAILED}

(***************************************************************************)
(* Candidate leads (ResearchLead) the agent may report.  Every field of    *)
(* the schema is kept; "" is the schema default.                           *)
(***************************************************************************)
ResearchLead(name, company, lead_type, email, phone, tags) ==
  [name |-> name, company |-> company, lead_type |-> lead_type, email |-> email,
   phone |-> phone, instagram |-> "", telegram |-> "", website |-> "",
   notes |-> "", temperature |-> "cold", tags |-> tags]

CandA == ResearchLead("acme", "NewCo", "venue", "a@x.com", "", << "queer" >>)
CandB == ResearchLead("bolt", "", "", "", "555", << >>)
CandC == [CandA EXCEPT !.email = "", !.phone = "777", !.notes = "new note",
                       !.lead_type = "bar", !.temperature = "warm",
                       !.tags = << "art", "New" >>]

Candidates == {CandA, CandB, CandC}

(***************************************************************************)
(* Raw agent output as a sequence of tokens.  "{" and "}" are the braces   *)
(* of the top-level object, "marker" is the literal  "leads": [  , an      *)
(* "items…" token is what follows the marker up to and including the       *)
(* closing bracket, "fence" is a triple backtick, "ws" is whitespace and   *)
(* "prose" is any other text.  "key" is the same key and bracket spelled   *)
(* any other way JSON allows (no space after the colon, say), which is not *)
(* the literal the parser searches for.  ItemsOf gives the candidate leads *)
(* an items token validates to.                                            *)
(***************************************************************************)
ItemTokens == {"items0", "items1", "items2", "items3"}

ItemsOf(tok) ==
  CASE tok = "items0" -> << >>
    [] tok = "items1" -> << CandA >>
    [] tok = "items2" -> << CandA, CandB >>
    [] tok = "items3" -> << CandC, CandA >>

NoText == << >>
TextJson == << "{", "marker", "items2", "}" >>
TextMarked == << "prose", "marker", "items1", "ws", "fence", "ws" >>
TextProse == << "prose" >>

TextMixed == << "{", "key", "items3", "}" >>

AgentTexts == {NoText, TextJson, TextMarked, TextProse}

(***************************************************************************)
(* Every text of at most MaxLen tokens, for the parser on its own.         *)
(***************************************************************************)
MaxLen == 4

Tokens == {"prose", "{", "}", "marker", "key", "items1", "ws", "fence"}

Texts == UNION { [1..n -> Tokens] : n \in 0..MaxLen }

NoParse == [ok |-> FALSE, leads |-> << >>, strategy |-> -1, invoked |-> FALSE]

(***************************************************************************)
(* A row of the ResearchJob table.  result is << >> for null and           *)
(* << leads >> for a stored parse; handle 0 is the empty interaction id;   *)
(* completed_at is abstracted to null / set.                               *)
(***************************************************************************)
NoResult == << >>

NewJob(city, status) ==
  [city |-> city, status |-> status, gemini_interaction_id |-> 0,
   raw_result |-> NoText, result |-> NoResult, error |-> "",
   leads_created |-> 0, completed_at |-> "null"]

NoJob == NewJob(0, "none")

VARIABLES
  jobs,        \* ResearchJob table: job id -> row, NoJob where there is no row
  nextId,      \* next auto-increment job id
  leads,       \* Lead table, in order of creation
  leadTypes,   \* LeadType table (names)
  tags,        \* Tag table (names)
  queue,       \* start_research_job messages waiting in the task queue (FIFO)
  redelivered, \* number of messages the broker has delivered a second time
  starts,      \* start_research_job executions in flight, per worker slot
  polls,       \* poll_research_jobs executions in flight, per worker slot
  calls,       \* per job: create-interaction calls since its handle was last cleared
  nCalls,      \* create-interaction calls issued so far (next handle = nCalls + 1)
  sinceStart,  \* ticks since a start task last began executing (saturating)
  sinceCall,   \* ticks since the last create-interaction call (saturating)
  last,        \* the last finished operation and what it reported to its caller
  answered,    \* what the fallback model answered in the last parse (NoAnswer: not asked)
  tx,          \* the write of a request whose transaction is still open (NoTx: none)
  observe,     \* whether last is recorded in this specification (never changes)
  callLimit,   \* create-interaction calls this specification explores (never changes)
  raw_text,    \* the text given to the parser on its own (NoText: none)
  parse_result, \* what the parser on its own returned for raw_text (NoParse: not run)
  reconciling  \* _create_lead_from_research executions in flight, step by step

crm == << leads, leadTypes, tags >>
clock == << sinceStart, sinceCall >>
tasks == << queue, redelivered, starts, polls >>

setting == << observe, callLimit >>

scope == << setting, raw_text, parse_result, reconciling >>

vars == << jobs, nextId, leads, leadTypes, tags, queue, redelivered, starts, polls,
           calls, nCalls, sinceStart, sinceCall, last, answered, tx, observe, callLimit,
           raw_text, parse_result, reconciling >>

Exists(j) == jobs[j].status # "none"

JobsOfCity(c) == { j \in JobIds : Exists(j) /\ jobs[j].city = c }

RunningJobs(c) == { j \in JobsOfCity(c) : jobs[j].status = RUNNING }

ActiveJobs(c) == { j \in JobsOfCity(c) : jobs[j].status \in active_statuses }

(***************************************************************************)
(* models.py, ResearchJob.Meta: UniqueConstraint(fields=["city"],          *)
(* condition=Q(status__in=["pending","running"])).  Writing row obj under  *)
(* id violates it when obj is active and another row of the same city is.  *)
(***************************************************************************)
NoUniqueConstraint(db, id, obj) == FALSE

unique_active_research_per_city(db, id, obj) ==
  /\ obj.status \in active_statuses
  /\ \E k \in JobIds : /\ k # id
                       /\ db[k].status \in active_statuses
                       /\ db[k].city = obj.city

(***************************************************************************)
(* Model.save() of an instance that carries a primary key: UPDATE of every *)
(* field, INSERT when no row has that key; IntegrityError when the         *)
(* constraint is violated (SaveFails), and then no row changes.            *)
(***************************************************************************)
SaveFails(db, id, obj) == unique_active_research_per_city(db, id, obj)

Saved(db, id, obj) == [db EXCEPT ![id] = obj]

Idle == [pc |-> "idle"]

RaceReconcilers == 2

NoReconciling == [r \in 1..RaceReconcilers |-> Idle]

NoReport == [op |-> "none", arg |-> 0, res |-> "none"]

Reported(op, arg, res) ==
  IF observe THEN [op |-> op, arg |-> arg, res |-> res] ELSE NoReport

NoAnswer == << "none" >>

NoTx == [id |-> 0, obj |-> NoJob]

NoResults == [processed |-> 0, completed |-> 0, failed |-> 0]

Workers(workers, pollers, limit, observed) ==
  /\ nextId = 1
  /\ queue = << >>
  /\ redelivered = 0
  /\ starts = [s \in 1..workers |-> Idle]
  /\ polls = [p \in 1..pollers |-> Idle]
  /\ calls = [j \in JobIds |-> 0]
  /\ nCalls = 0
  /\ sinceStart = TicksPerMinute
  /\ sinceCall = TicksPerMinute
  /\ last = NoReport
  /\ answered = NoAnswer
  /\ tx = NoTx
  /\ observe = observed
  /\ callLimit = limit

(***************************************************************************)
(* migrations/0003_load_initial_data.py seeds the lead types and the tags. *)
(***************************************************************************)
Seeded ==
  /\ leadTypes = {"Venue"}
  /\ tags = {"Queer"}

Start(workers, pollers, limit, observed) ==
  /\ Workers(workers, pollers, limit, observed)
  /\ jobs = [j \in JobIds |-> NoJob]
  /\ leads = << >>
  /\ Seeded
  /\ raw_text = NoText
  /\ parse_result = NoParse
  /\ reconciling = NoReconciling

Init == Start(MaxStartWorkers, MaxPolls, MaxCalls, FALSE)

(***************************************************************************)
(* start_research_job.delay(job_id): append a message to the queue.        *)
(***************************************************************************)
NoDelay(q, j) == q

delay(q, j) == Append(q, j)

(***************************************************************************)
(* tasks.py queue_research(city_id): 400 when the city has an active job,  *)
(* else create a PENDING job and enqueue its start task.                   *)
(***************************************************************************)
queue_research(c) ==
  /\ IF ActiveJobs(c) # {}
     THEN /\ last' = Reported("queue_research", c, "HttpError400")
          /\ UNCHANGED << jobs, nextId, queue >>
     ELSE IF SaveFails(jobs, nextId, NewJob(c, PENDING))
     THEN /\ last' = Reported("queue_research", c, "IntegrityError")
          /\ UNCHANGED << jobs, nextId, queue >>
     ELSE /\ nextId <= MaxJobs
          /\ Len(queue) < MaxQueue
          /\ jobs' = Saved(jobs, nextId, NewJob(c, PENDING))
          /\ nextId' = nextId + 1
          /\ queue' = delay(queue, nextId)
          /\ last' = Reported("queue_research", c, "pending")
  /\ UNCHANGED << crm, clock, redelivered, starts, polls, calls, nCalls, answered, tx, scope >>

(***************************************************************************)
(* service.py create_research_job(data): 400 when the city has an active   *)
(* job, else create a NOT_STARTED job (nothing is enqueued).               *)
(***************************************************************************)
create_research_job(c) ==
  /\ IF ActiveJobs(c) # {}
     THEN /\ last' = Reported("create_research_job", c, "HttpError400")
          /\ UNCHANGED << jobs, nextId >>
     ELSE /\ nextId <= MaxJobs
          /\ jobs' = Saved(jobs, nextId, NewJob(c, NOT_STARTED))
          /\ nextId' = nextId + 1
          /\ last' = Reported("create_research_job", c, "created")
  /\ UNCHANGED << crm, clock, tasks, calls, nCalls, answered, tx, scope >>

(***************************************************************************)
(* Re-queueing a job: the in-memory row a run_job entry point saves.  The  *)
(* service clears the error as well, the two admin actions do not.         *)
(***************************************************************************)
ServiceQueuedWithHandle(job) ==
  [job EXCEPT !.status = PENDING, !.error = ""]

ServiceQueued(job) ==
  [job EXCEPT !.status = PENDING, !.gemini_interaction_id = 0, !.error = ""]

AdminQueued(job) ==
  [job EXCEPT !.status = PENDING, !.gemini_interaction_id = 0]

(***************************************************************************)
(* The common shape of service.run_research_job, ResearchJobAdmin.run_job  *)
(* (one job of the queryset) and ResearchJobAdmin.run_job_single: reject a *)
(* job that is not NOT_STARTED / FAILED, else save it as PENDING and       *)
(* enqueue its start task.  save() raises IntegrityError when another job  *)
(* of the city is active: nothing is written and nothing is enqueued.      *)
(***************************************************************************)
RunJob(op, j, obj, rejected) ==
  /\ Exists(j)
  /\ IF jobs[j].status \notin allowed_statuses
     THEN /\ last' = Reported(op, j, rejected)
          /\ UNCHANGED << jobs, queue, calls >>
     ELSE IF SaveFails(jobs, j, obj)
     THEN /\ last' = Reported(op, j, "IntegrityError")
          /\ UNCHANGED << jobs, queue, calls >>
     ELSE /\ Len(queue) < MaxQueue
          /\ jobs' = Saved(jobs, j, obj)
          /\ queue' = delay(queue, j)
          /\ calls' = [calls EXCEPT ![j] = 0]
          /\ last' = Reported(op, j, "queued")
  /\ UNCHANGED << nextId, crm, clock, redelivered, starts, polls, nCalls, answered, tx, scope >>

run_research_job(j) ==
  RunJob("run_research_job", j, ServiceQueued(jobs[j]), "HttpError400")

admin_run_job(j) ==
  RunJob("admin_run_job", j, AdminQueued(jobs[j]), "skipping")

admin_run_job_single(j) ==
  RunJob("admin_run_job_single", j, AdminQueued(jobs[j]), "cannot run")

(***************************************************************************)
(* controllers.py ResearchJobController.delete_job.                        *)
(***************************************************************************)
delete_job(j) ==
  /\ Exists(j)
  /\ IF jobs[j].status \in {PENDING, RUNNING}
     THEN /\ last' = Reported("delete_job", j, "HttpError400")
          /\ UNCHANGED jobs
     ELSE /\ jobs' = [jobs EXCEPT ![j] = NoJob]
          /\ last' = Reported("delete_job", j, "deleted")
  /\ UNCHANGED << nextId, crm, clock, tasks, calls, nCalls, answered, tx, scope >>

(***************************************************************************)
(* admin.py ResearchJobAdmin: the model is registered with the default     *)
(* permissions, so the admin's delete view and its delete_selected action  *)
(* are available on every job; they call obj.delete() whatever the status. *)
(* Deleting a City in CityAdmin removes its jobs the same way (models.py,  *)
(* ResearchJob.city on_delete=CASCADE).                                    *)
(***************************************************************************)
admin_delete_model(j) ==
  /\ Exists(j)
  /\ jobs' = [jobs EXCEPT ![j] = NoJob]
  /\ last' = Reported("admin_delete_model", j, "deleted")
  /\ UNCHANGED << nextId, crm, clock, tasks, calls, nCalls, answered, tx, scope >>

(***************************************************************************)
(* The task queue.  Redeliver is the broker delivering a waiting message a *)
(* second time (at-least-once delivery).                                   *)
(***************************************************************************)
Redeliver ==
  /\ redelivered < MaxRedeliver
  /\ Len(queue) < MaxQueue
  /\ \E i \in 1..Len(queue) : queue' = Append(queue, queue[i])
  /\ redelivered' = redelivered + 1
  /\ UNCHANGED << jobs, nextId, crm, clock, starts, polls, calls, nCalls, last, answered, tx, scope >>

FreeSlot(procs, s) ==
  /\ procs[s].pc = "idle"
  /\ \A r \in DOMAIN procs : r < s => procs[r].pc # "idle"

(***************************************************************************)
(* tasks.py start_research_job, first part: read the job and decide        *)
(* whether to start it.  A job that has an interaction id, or that is not  *)
(* PENDING / NOT_STARTED, is skipped.                                      *)
(***************************************************************************)
StartUnlessRunning(job) ==
  IF job.status = "none" THEN "DoesNotExist"
  ELSE IF job.gemini_interaction_id # 0 THEN "already_started"
  ELSE IF job.status = RUNNING THEN "skipped"
  ELSE "start"

StartDecision(job) ==
  IF job.status = "none" THEN "DoesNotExist"
  ELSE IF job.gemini_interaction_id # 0 THEN "already_started"
  ELSE IF job.status \notin {PENDING, NOT_STARTED} THEN "skipped"
  ELSE "start"

StartBeginTask(s) ==
  /\ FreeSlot(starts, s)
  /\ queue # << >>
  /\ queue' = Tail(queue)
  /\ LET j == Head(queue)
         d == StartDecision(jobs[j])
     IN IF d = "start"
        THEN /\ starts' = [starts EXCEPT ![s] = [pc |-> "call", id |-> j, job |-> jobs[j]]]
             /\ UNCHANGED last
        ELSE /\ last' = Reported("start_research_job", j, d)
             /\ UNCHANGED starts
  /\ UNCHANGED << jobs, nextId, crm, redelivered, polls, calls, nCalls, answered, tx, scope >>

(***************************************************************************)
(* client.interactions.create(...): the external call.  It returns a new   *)
(* interaction id, or raises.                                              *)
(***************************************************************************)
Started(job, interaction) ==
  [job EXCEPT !.gemini_interaction_id = interaction, !.status = RUNNING,
              !.error = "", !.completed_at = "null"]

StartFailedSilently(job) ==
  [job EXCEPT !.status = FAILED, !.completed_at = "set"]

StartFailed(job) ==
  [job EXCEPT !.status = FAILED, !.error = "traceback", !.completed_at = "set"]

StartCallTask(s) ==
  /\ starts[s].pc = "call"
  /\ nCalls < callLimit
  /\ nCalls' = nCalls + 1
  /\ calls' = [calls EXCEPT ![starts[s].id] = @ + 1]
  /\ \/ starts' = [starts EXCEPT ![s].pc = "save",
                                 ![s].job = Started(starts[s].job, nCalls + 1)]
     \/ starts' = [starts EXCEPT ![s].pc = "except"]
  /\ UNCHANGED << jobs, nextId, crm, queue, redelivered, polls, last, answered, tx, scope >>

(***************************************************************************)
(* job.save() after a successful call; when it raises (IntegrityError) the *)
(* except branch saves the job as FAILED and re-raises.                    *)
(***************************************************************************)
StartSave(s) ==
  /\ starts[s].pc = "save"
  /\ LET j == starts[s].id
         obj == starts[s].job
     IN IF SaveFails(jobs, j, obj)
        THEN /\ jobs' = Saved(jobs, j, StartFailed(obj))
             /\ last' = Reported("start_research_job", j, "raised")
        ELSE /\ jobs' = Saved(jobs, j, obj)
             /\ last' = Reported("start_research_job", j, "running")
  /\ starts' = [starts EXCEPT ![s] = Idle]
  /\ UNCHANGED << nextId, crm, clock, queue, redelivered, polls, calls, nCalls, answered, tx, scope >>

StartExcept(s) ==
  /\ starts[s].pc = "except"
  /\ jobs' = Saved(jobs, starts[s].id, StartFailed(starts[s].job))
  /\ last' = Reported("start_research_job", starts[s].id, "raised")
  /\ starts' = [starts EXCEPT ![s] = Idle]
  /\ UNCHANGED << nextId, crm, clock, queue, redelivered, polls, calls, nCalls, answered, tx, scope >>

(***************************************************************************)
(* Case-insensitive comparison (__iexact).  Lower folds the spellings the  *)
(* model uses to lower case.                                               *)
(***************************************************************************)
Lower(str) ==
  CASE str = "Venue" -> "venue"
    [] str = "Queer" -> "queer"
    [] str = "A@X.com" -> "a@x.com"
    [] str = "Acme" -> "acme"
    [] str = "Club" -> "club"
    [] str = "Art" -> "art"
    [] str = "New" -> "new"
    [] OTHER -> str

iexact(a, b) == Lower(a) = Lower(b)

Max(S) == CHOOSE x \in S : \A y \in S : y <= x

(***************************************************************************)
(* QuerySet.first() on Lead: Meta.ordering = ["-created_at"], so the most  *)
(* recently created row of those that match; 0 when none does.             *)
(***************************************************************************)
first(S) == IF S = {} THEN 0 ELSE Max(S)

(***************************************************************************)
(* tasks.py _find_existing_lead: the contact fields in their fixed order,  *)
(* then name + city.  Returns the index of the lead in the table, or 0.    *)
(***************************************************************************)
phone_before_email == << "phone", "email", "instagram", "telegram", "website" >>

contact_fields == << "email", "phone", "instagram", "telegram", "website" >>

RECURSIVE FindByContact(_, _, _)
FindByContact(db, data, fields) ==
  IF fields = << >> THEN 0
  ELSE LET field == Head(fields)
           value == data[field]
           lead == IF value # ""
                   THEN first({ i \in 1..Len(db) : iexact(db[i][field], value) })
                   ELSE 0
       IN IF lead # 0 THEN lead ELSE FindByContact(db, data, Tail(fields))

NoExistingLead(db, data, city) == 0

_find_existing_lead(db, data, city) ==
  LET lead == FindByContact(db, data, contact_fields)
  IN IF lead # 0 THEN lead
     ELSE first({ i \in 1..Len(db) : iexact(db[i].name, data.name) /\ db[i].city = city })

(***************************************************************************)
(* Manager.get_or_create(name__iexact=name, defaults={"name": name}) on    *)
(* LeadType and Tag: the row it returns and the table afterwards.          *)
(***************************************************************************)
Resolved(table, name) ==
  IF \E n \in table : iexact(n, name)
  THEN CHOOSE n \in table : iexact(n, name)
  ELSE name

get_or_create(table, name) == table \cup { Resolved(table, name) }

(***************************************************************************)
(* tasks.py _create_lead_from_research on the three tables                 *)
(* st = [leads, leadTypes, tags]: merge into the lead found (fill blanks   *)
(* only), or create a lead; then add the candidate's tags.                 *)
(***************************************************************************)
merge_fields == << "company", "email", "phone", "instagram", "telegram", "website", "notes" >>

RECURSIVE Overwrite(_, _, _)
Overwrite(lead, data, fields) ==
  IF fields = << >> THEN lead
  ELSE LET field == Head(fields)
           filled == IF data[field] # ""
                     THEN [lead EXCEPT ![field] = data[field]]
                     ELSE lead
       IN Overwrite(filled, data, Tail(fields))

RECURSIVE FillBlanks(_, _, _)
FillBlanks(lead, data, fields) ==
  IF fields = << >> THEN lead
  ELSE LET field == Head(fields)
           filled == IF lead[field] = "" /\ data[field] # ""
                     THEN [lead EXCEPT ![field] = data[field]]
                     ELSE lead
       IN FillBlanks(filled, data, Tail(fields))

RECURSIVE SetTags(_, _, _)
SetTags(table, lead, names) ==
  IF names = << >> THEN [table |-> table, lead |-> lead]
  ELSE LET tag == Resolved(table, Head(names))
       IN SetTags(get_or_create(table, Head(names)),
                  [lead EXCEPT !.tags = {tag}], Tail(names))

RECURSIVE AddTags(_, _, _)
AddTags(table, lead, names) ==
  IF names = << >> THEN [table |-> table, lead |-> lead]
  ELSE LET tag == Resolved(table, Head(names))
       IN AddTags(get_or_create(table, Head(names)),
                  [lead EXCEPT !.tags = @ \cup {tag}], Tail(names))

NewLead(data, city, lead_type) ==
  [name |-> data.name, company |-> data.company, email |-> data.email,
   phone |-> data.phone, instagram |-> data.instagram, telegram |-> data.telegram,
   website |-> data.website, notes |-> data.notes, city |-> city,
   lead_type |-> lead_type, temperature |-> data.temperature,
   source |-> "Gemini Deep Research", tags |-> {}]

_create_lead_from_research(st, data, city) ==
  LET found == _find_existing_lead(st.leads, data, city)
      lead_type == IF data.lead_type # "" THEN Resolved(st.leadTypes, data.lead_type) ELSE ""
      types == IF data.lead_type # "" THEN get_or_create(st.leadTypes, data.lead_type)
               ELSE st.leadTypes
      merged == LET blanks == FillBlanks(st.leads[found], data, merge_fields)
                IN IF blanks.lead_type = "" /\ lead_type # ""
                   THEN [blanks EXCEPT !.lead_type = lead_type]
                   ELSE blanks
      lead == IF found # 0 THEN merged ELSE NewLead(data, city, lead_type)
      index == IF found # 0 THEN found ELSE Len(st.leads) + 1
      tagged == AddTags(st.tags, lead, data.tags)
  IN [leads |-> IF found # 0 THEN [st.leads EXCEPT ![found] = tagged.lead]
                ELSE Append(st.leads, tagged.lead),
      leadTypes |-> types,
      tags |-> tagged.table,
      lead |-> index]

(***************************************************************************)
(* The loop of _process_completed_job and of reprocess_job over            *)
(* result.leads: leads_created counts the candidates for which             *)
(* _create_lead_from_research returned a lead.                             *)
(***************************************************************************)
RECURSIVE CreateLeads(_, _, _, _)
CreateLeads(st, candidates, city, leads_created) ==
  IF candidates = << >>
  THEN [leads |-> st.leads, leadTypes |-> st.leadTypes, tags |-> st.tags,
        leads_created |-> leads_created]
  ELSE LET after == _create_lead_from_research(st, Head(candidates), city)
       IN CreateLeads(after, Tail(candidates), city,
                      IF after.lead # 0 THEN leads_created + 1 ELSE leads_created)

Tables == [leads |-> leads, leadTypes |-> leadTypes, tags |-> tags]

(***************************************************************************)
(* str.rstrip() on a token sequence.                                       *)
(***************************************************************************)
RECURSIVE rstrip(_)
rstrip(text) ==
  IF text # << >> /\ text[Len(text)] = "ws"
  THEN rstrip(SubSeq(text, 1, Len(text) - 1))
  ELSE text

(***************************************************************************)
(* ResearchResult.model_validate_json on a token sequence: JSON allows     *)
(* whitespace around and between its tokens; apart from that the text must *)
(* be exactly { "leads": [ items ] } with items that validate (leads is a  *)
(* required field of ResearchResult).                                      *)
(***************************************************************************)
NotSpace(tok) == tok # "ws"

model_validate_json(text) ==
  LET t == SelectSeq(text, NotSpace)
  IN IF Len(t) = 4 /\ t[1] = "{" /\ t[2] \in {"marker", "key"} /\ t[3] \in ItemTokens
        /\ t[4] = "}"
     THEN [ok |-> TRUE, leads |-> ItemsOf(t[3])]
     ELSE [ok |-> FALSE, leads |-> << >>]

(***************************************************************************)
(* Strategy 2 of _parse_research_result: text_output.find(leads_marker),   *)
(* everything from the marker on, rstrip, drop a trailing fence, rstrip,   *)
(* wrap in braces.                                                         *)
(***************************************************************************)
find(text, tok) ==
  IF \E i \in 1..Len(text) : text[i] = tok
  THEN CHOOSE i \in 1..Len(text) : text[i] = tok /\ \A k \in 1..(i - 1) : text[k] # tok
  ELSE -1

ExtractedWithFence(text) ==
  LET idx == find(text, "marker")
  IN << "{" >> \o rstrip(SubSeq(text, idx, Len(text))) \o << "}" >>

Extracted(text) ==
  LET idx == find(text, "marker")
      extracted == rstrip(SubSeq(text, idx, Len(text)))
      unfenced == IF extracted # << >> /\ extracted[Len(extracted)] = "fence"
                  THEN rstrip(SubSeq(extracted, 1, Len(extracted) - 1))
                  ELSE extracted
  IN << "{" >> \o unfenced \o << "}" >>

(***************************************************************************)
(* _parse_with_gemini_fallback: the secondary model raises, or answers     *)
(* with a text (possibly empty) that is validated against the schema.      *)
(***************************************************************************)
FallbackRaises == << "raise" >>
FallbackJson == << "{", "marker", "items2", "}" >>
FallbackAnswers == { FallbackRaises, NoText, FallbackJson, TextProse }

_parse_with_gemini_fallback(answer) ==
  IF answer = FallbackRaises
  THEN [ok |-> FALSE, leads |-> << >>, error |-> "APIError"]
  ELSE IF answer = NoText
  THEN [ok |-> FALSE, leads |-> << >>,
        error |-> "Gemini returned empty response when parsing raw text"]
  ELSE LET result == model_validate_json(answer)
       IN [ok |-> result.ok, leads |-> result.leads,
           error |-> IF result.ok THEN "" ELSE "ValidationError"]

(***************************************************************************)
(* tasks.py _parse_research_result(text_output), given what the fallback   *)
(* model would answer: the strategy that succeeded (0: none), the leads,   *)
(* whether the fallback model was invoked, and the exception raised when   *)
(* all strategies failed (line 385: ValueError, chained from the           *)
(* fallback's exception, whose text the message ends with).                *)
(***************************************************************************)
ParseError == "Could not parse research result after trying all strategies"

NoException == [type |-> "none", message |-> "", cause |-> ""]

ParseFailure(cause) == [type |-> "ValueError", message |-> ParseError, cause |-> cause]

ParsedAskingFirst(text_output, answer) ==
  LET fallback == _parse_with_gemini_fallback(answer)
  IN IF fallback.ok
     THEN [ok |-> TRUE, leads |-> fallback.leads, strategy |-> 3, invoked |-> TRUE,
           raised |-> NoException]
     ELSE [ok |-> FALSE, leads |-> << >>, strategy |-> 0, invoked |-> TRUE,
           raised |-> ParseFailure(fallback.error)]

_parse_research_result(text_output, answer) ==
  LET direct == model_validate_json(text_output)
      marked == IF find(text_output, "marker") = -1
                THEN [ok |-> FALSE, leads |-> << >>]
                ELSE model_validate_json(Extracted(text_output))
      fallback == _parse_with_gemini_fallback(answer)
  IN IF direct.ok
     THEN [ok |-> TRUE, leads |-> direct.leads, strategy |-> 1, invoked |-> FALSE,
           raised |-> NoException]
     ELSE IF marked.ok
     THEN [ok |-> TRUE, leads |-> marked.leads, strategy |-> 2, invoked |-> FALSE,
           raised |-> NoException]
     ELSE IF fallback.ok
     THEN [ok |-> TRUE, leads |-> fallback.leads, strategy |-> 3, invoked |-> TRUE,
           raised |-> NoException]
     ELSE [ok |-> FALSE, leads |-> << >>, strategy |-> 0, invoked |-> TRUE,
           raised |-> ParseFailure(fallback.error)]

(***************************************************************************)
(* The in-memory job after the steps of _process_completed_job,            *)
(* _poll_and_process and reprocess_job.                                    *)
(***************************************************************************)
PollFailedWithoutRaw(job, error) ==
  [job EXCEPT !.status = FAILED, !.error = error, !.completed_at = "set",
              !.raw_result = NoText]

PollFailed(job, error) ==
  [job EXCEPT !.status = FAILED, !.error = error, !.completed_at = "set"]

ProcessedUncounted(job, candidates, leads_created) ==
  [job EXCEPT !.result = << candidates >>, !.status = COMPLETED, !.completed_at = "set"]

Processed(job, candidates, leads_created) ==
  [job EXCEPT !.result = << candidates >>, !.leads_created = leads_created,
              !.status = COMPLETED, !.completed_at = "set"]

ReprocessedKeepingError(job, candidates, leads_created) ==
  [job EXCEPT !.result = << candidates >>, !.leads_created = leads_created,
              !.status = COMPLETED, !.completed_at = "set"]

Reprocessed(job, candidates, leads_created) ==
  [job EXCEPT !.result = << candidates >>, !.leads_created = leads_created,
              !.status = COMPLETED, !.error = "", !.completed_at = "set"]

ReprocessFailedUnrecorded(job, error) == job

ReprocessFailed(job, error) ==
  [job EXCEPT !.status = FAILED, !.error = error]

(***************************************************************************)
(* tasks.py poll_research_jobs: the counts it accumulates from the status  *)
(* _poll_and_process returns for each job.                                 *)
(***************************************************************************)
CountedWithoutErrors(results, status) ==
  [processed |-> results.processed + 1,
   completed |-> results.completed + (IF status = "completed" THEN 1 ELSE 0),
   failed |-> results.failed + (IF status = "failed" THEN 1 ELSE 0)]

Counted(results, status) ==
  [processed |-> results.processed + 1,
   completed |-> results.completed + (IF status = "completed" THEN 1 ELSE 0),
   failed |-> results.failed + (IF status \in {"failed", "error"} THEN 1 ELSE 0)]

(***************************************************************************)
(* running_jobs = ResearchJob.objects.filter(status=RUNNING), evaluated    *)
(* when the loop starts; Meta.ordering = ["-created_at"]: newest first.    *)
(* Each element is the row as read at that moment.                         *)
(***************************************************************************)
RECURSIVE Newest(_)
Newest(S) ==
  IF S = {} THEN << >>
  ELSE << [id |-> Max(S), job |-> jobs[Max(S)]] >> \o Newest(S \ {Max(S)})

running_jobs == Newest({ j \in JobIds : jobs[j].status = RUNNING })

Ids(rows) == [i \in 1..Len(rows) |-> rows[i].id]

PollSelect(p) ==
  /\ FreeSlot(polls, p)
  /\ polls' = [polls EXCEPT ![p] =
                 [pc |-> IF running_jobs = << >> THEN "done" ELSE "loop",
                  todo |-> running_jobs, cur |-> NoJob,
                  results |-> NoResults, selected |-> Ids(running_jobs),
                  polled |-> << >>, ended |-> << >>]]
  /\ UNCHANGED << jobs, nextId, crm, clock, queue, redelivered, starts, calls, nCalls,
                  last, answered, tx, scope >>

(***************************************************************************)
(* The end of _poll_and_process for the job at the head of the loop: the   *)
(* row it saved (written = FALSE: nothing was saved), the status it        *)
(* returned, and the return of poll_research_jobs after the last job.      *)
(***************************************************************************)
PollNext(p, obj, written, status) ==
  LET pr == polls[p]
      id == Head(pr.todo).id
  IN /\ jobs' = IF written THEN Saved(jobs, id, obj) ELSE jobs
     /\ polls' = [polls EXCEPT ![p] =
                    [pc |-> IF Tail(pr.todo) = << >> THEN "done" ELSE "loop",
                     todo |-> Tail(pr.todo), cur |-> NoJob,
                     results |-> Counted(pr.results, status),
                     selected |-> pr.selected,
                     polled |-> Append(pr.polled, id),
                     ended |-> Append(pr.ended, IF written THEN obj.status ELSE "unchanged")]]

(***************************************************************************)
(* return results: poll_research_jobs ends.                                *)
(***************************************************************************)
PollReturn(p) ==
  /\ polls[p].pc = "done"
  /\ polls' = [polls EXCEPT ![p] = Idle]
  /\ UNCHANGED << jobs, nextId, crm, clock, queue, redelivered, starts, calls, nCalls,
                  last, answered, tx, scope >>

(***************************************************************************)
(* tasks.py _poll_and_process up to the first save of                      *)
(* _process_completed_job: client.interactions.get raises, or reports a    *)
(* status (and, when completed, a text output).                            *)
(***************************************************************************)
NoGeminiStatus(status) == ""

GeminiStatus(status) ==
  IF status = "failed" THEN "Gemini status: failed" ELSE "Gemini status: cancelled"

(***************************************************************************)
(* What client.interactions.get answers: it raises, or it reports a status *)
(* ("in_progress" stands for every status other than completed, failed and *)
(* cancelled) and, when completed, the text of its last output.            *)
(***************************************************************************)
InteractionStatuses == {"raises", "failed", "cancelled", "in_progress", "completed"}

OutputsOf(status) == IF status = "completed" THEN AgentTexts ELSE {NoText}

LeftAsRead(job) == job

MarkedRunning(job) == [job EXCEPT !.status = RUNNING]

PollObserves(p, status, text_output) ==
  LET job == Head(polls[p].todo).job
      id == Head(polls[p].todo).id
      running == MarkedRunning(job)
      stored == [job EXCEPT !.raw_result = text_output]
  IN CASE status = "raises" ->
            PollNext(p, PollFailed(job, "API error"), TRUE, "error")
       [] status \in {"failed", "cancelled"} ->
            PollNext(p, PollFailed(job, GeminiStatus(status)), TRUE, "failed")
       [] status = "in_progress" ->
            IF job.status # RUNNING
            THEN IF SaveFails(jobs, id, running)
                 THEN PollNext(p, PollFailed(running, "IntegrityError"), TRUE, "error")
                 ELSE PollNext(p, running, TRUE, "running")
            ELSE PollNext(p, job, FALSE, "running")
       [] status = "completed" ->
            IF text_output = NoText
            THEN PollNext(p, PollFailed(job, "No text output in response"), TRUE, "error")
            ELSE IF SaveFails(jobs, id, stored)
            THEN PollNext(p, PollFailed(stored, "IntegrityError"), TRUE, "error")
            ELSE /\ jobs' = Saved(jobs, id, stored)
                 /\ polls' = [polls EXCEPT ![p].pc = "process", ![p].cur = stored]

PollJob(p) ==
  /\ polls[p].pc = "loop"
  /\ \E status \in InteractionStatuses :
       \E text_output \in OutputsOf(status) : PollObserves(p, status, text_output)
  /\ UNCHANGED << nextId, crm, clock, queue, redelivered, starts, calls, nCalls,
                  last, answered, tx, scope >>

(***************************************************************************)
(* The rest of _process_completed_job: parse, create the leads, save the   *)
(* job as COMPLETED; a parse failure is caught by _poll_and_process, which *)
(* saves the job as FAILED.                                                *)
(***************************************************************************)
PollProcess(p) ==
  /\ polls[p].pc = "process"
  /\ \E answer \in FallbackAnswers :
       LET job == polls[p].cur
           parsed == _parse_research_result(job.raw_result, answer)
           created == CreateLeads(Tables, parsed.leads, job.city, 0)
       IN /\ IF parsed.ok
             THEN /\ leads' = created.leads
                  /\ leadTypes' = created.leadTypes
                  /\ tags' = created.tags
                  /\ PollNext(p, Processed(job, parsed.leads, created.leads_created),
                              TRUE, "completed")
             ELSE /\ UNCHANGED crm
                  /\ PollNext(p, PollFailed(job, ParseError), TRUE, "error")
          /\ answered' = IF parsed.invoked THEN answer ELSE NoAnswer
  /\ UNCHANGED << nextId, clock, queue, redelivered, starts, calls, nCalls, last, tx, scope >>

(***************************************************************************)
(* tasks.py reprocess_job (behind service.reprocess_research_job and the   *)
(* admin actions, which reject a job without raw_result themselves).       *)
(***************************************************************************)
AnyRawResult(job) == TRUE

HasRawResult(job) == job.raw_result # NoText

ReprocessedRun(job, parsed, created) ==
  [job |-> Reprocessed(job, parsed.leads, created.leads_created),
   leads |-> created.leads, leadTypes |-> created.leadTypes, tags |-> created.tags,
   res |-> "completed", invoked |-> parsed.invoked]

ReprocessFailedRun(job, st, parsed) ==
  [job |-> ReprocessFailed(job, ParseError),
   leads |-> st.leads, leadTypes |-> st.leadTypes, tags |-> st.tags,
   res |-> "raised", invoked |-> parsed.invoked]

ReprocessParsed(job, st, parsed) ==
  IF parsed.ok
  THEN ReprocessedRun(job, parsed, CreateLeads(st, parsed.leads, job.city, 0))
  ELSE ReprocessFailedRun(job, st, parsed)

reprocess(job, st, answer) ==
  ReprocessParsed(job, st, _parse_research_result(job.raw_result, answer))

ReprocessWrites(j, run, answer, report) ==
  /\ leads' = run.leads
  /\ leadTypes' = run.leadTypes
  /\ tags' = run.tags
  /\ jobs' = Saved(jobs, j, run.job)
  /\ last' = report
  /\ answered' = IF run.invoked THEN answer ELSE NoAnswer

reprocess_job(j) ==
  /\ Exists(j)
  /\ IF ~HasRawResult(jobs[j])
     THEN /\ last' = Reported("reprocess_job", j, "no raw_result")
          /\ UNCHANGED << jobs, crm, answered >>
     ELSE \E answer \in FallbackAnswers :
            \E run \in { reprocess(jobs[j], Tables, answer) } :
              ReprocessWrites(j, run, answer, Reported("reprocess_job", j, run.res))
  /\ UNCHANGED << nextId, clock, tasks, calls, nCalls, tx, scope >>

(***************************************************************************)
(* service.py reprocess_research_job, the API's reprocess endpoint, inside *)
(* a request of the production settings (ATOMIC_REQUESTS): it calls        *)
(* reprocess_job in the request's transaction.  When reprocess_job raises, *)
(* the exception leaves the view and the transaction is rolled back, the   *)
(* save of the failed job with it.                                         *)
(***************************************************************************)
reprocess_research_job(j) ==
  /\ Exists(j)
  /\ IF ~HasRawResult(jobs[j])
     THEN /\ last' = Reported("reprocess_research_job", j, "HttpError400")
          /\ UNCHANGED << jobs, crm, answered >>
     ELSE \E answer \in FallbackAnswers :
            \E run \in { reprocess(jobs[j], Tables, answer) } :
              IF run.res = "completed"
              THEN ReprocessWrites(j, run, answer,
                                   Reported("reprocess_research_job", j, "completed"))
              ELSE /\ last' = Reported("reprocess_research_job", j, "raised")
                   /\ answered' = answer
                   /\ UNCHANGED << jobs, crm >>
  /\ UNCHANGED << nextId, clock, tasks, calls, nCalls, tx, scope >>

(***************************************************************************)
(* reprocess_job called twice in a row on the same job, the fallback model *)
(* answering the same both times.  last records, for each run, what it     *)
(* reported, the job's leads_created and the number of leads after it.     *)
(***************************************************************************)
RunReport(run) ==
  [res |-> run.res, leads_created |-> run.job.leads_created, leads |-> Len(run.leads)]

TablesAfter(run) == [leads |-> run.leads, leadTypes |-> run.leadTypes, tags |-> run.tags]

reprocess_job_twice(j) ==
  /\ Exists(j)
  /\ HasRawResult(jobs[j])
  /\ \E answer \in FallbackAnswers :
       \E one \in { reprocess(jobs[j], Tables, answer) } :
         \E two \in { reprocess(one.job, TablesAfter(one), answer) } :
           ReprocessWrites(j, two, answer,
                           Reported("reprocess_job twice", j,
                                    [first |-> RunReport(one), second |-> RunReport(two),
                                     before |-> Len(leads)]))
  /\ UNCHANGED << nextId, clock, tasks, calls, nCalls, tx, scope >>

(***************************************************************************)
(* The pipeline without its clock.  Time can always pass before a start    *)
(* task begins, so the rate limit forbids no order of the steps: this is   *)
(* the behaviour of the pipeline on everything but the clock.              *)
(***************************************************************************)
StartBegin(s) == StartBeginTask(s) /\ UNCHANGED clock

StartCall(s) == StartCallTask(s) /\ UNCHANGED clock

(***************************************************************************)
(* The pipeline with its clock.  @shared_task(rate_limit="1/m") lets a     *)
(* start task begin only when a minute has passed since the previous one   *)
(* began; Tick lets time pass.                                             *)
(***************************************************************************)
RateLimitOpen == sinceStart >= TicksPerMinute

Saturate(n) == IF n < TicksPerMinute THEN n + 1 ELSE n

Tick ==
  /\ sinceStart < TicksPerMinute \/ sinceCall < TicksPerMinute
  /\ sinceStart' = Saturate(sinceStart)
  /\ sinceCall' = Saturate(sinceCall)
  /\ UNCHANGED << jobs, nextId, crm, tasks, calls, nCalls, last, answered, tx, scope >>

RateLimitedStartBegin(s) ==
  /\ RateLimitOpen
  /\ sinceStart' = 0
  /\ StartBeginTask(s)
  /\ UNCHANGED sinceCall

TimedStartCall(s) ==
  /\ sinceCall' = 0
  /\ StartCallTask(s)
  /\ UNCHANGED sinceStart

(***************************************************************************)
(* queue_research inside a request of the production settings              *)
(* (settings.py: ATOMIC_REQUESTS on the PostgreSQL database): the INSERT   *)
(* is part of the request's transaction and is visible to the workers only *)
(* after commit_request, while start_research_job.delay publishes the      *)
(* message at once.  One request is in flight at a time.                   *)
(***************************************************************************)
request_queue_research(c) ==
  /\ tx = NoTx
  /\ IF ActiveJobs(c) # {}
     THEN /\ last' = Reported("queue_research", c, "HttpError400")
          /\ UNCHANGED << nextId, queue, tx >>
     ELSE /\ nextId <= MaxJobs
          /\ Len(queue) < MaxQueue
          /\ tx' = [id |-> nextId, obj |-> NewJob(c, PENDING)]
          /\ nextId' = nextId + 1
          /\ queue' = delay(queue, nextId)
          /\ last' = Reported("queue_research", c, "pending")
  /\ UNCHANGED << jobs, crm, clock, redelivered, starts, polls, calls, nCalls, answered, scope >>

commit_request ==
  /\ tx # NoTx
  /\ jobs' = IF SaveFails(jobs, tx.id, tx.obj) THEN jobs ELSE Saved(jobs, tx.id, tx.obj)
  /\ tx' = NoTx
  /\ UNCHANGED << nextId, crm, clock, tasks, calls, nCalls, last, answered, scope >>

(***************************************************************************)
(* Every operation of the pipeline, without the record of the last         *)
(* response.                                                               *)
(***************************************************************************)
Next ==
  \/ \E c \in Cities : queue_research(c)
  \/ \E c \in Cities : create_research_job(c)
  \/ \E j \in JobIds : run_research_job(j)
  \/ \E j \in JobIds : admin_run_job(j)
  \/ \E j \in JobIds : admin_run_job_single(j)
  \/ \E j \in JobIds : delete_job(j)
  \/ \E s \in DOMAIN starts : StartBegin(s)
  \/ \E s \in DOMAIN starts : StartCall(s)
  \/ \E s \in DOMAIN starts : StartSave(s)
  \/ \E s \in DOMAIN starts : StartExcept(s)
  \/ \E p \in DOMAIN polls : PollSelect(p)
  \/ \E p \in DOMAIN polls : PollJob(p)
  \/ \E p \in DOMAIN polls : PollProcess(p)
  \/ \E p \in DOMAIN polls : PollReturn(p)
  \/ \E j \in JobIds : reprocess_job(j)

Spec == Init /\ [][Next]_vars

(***************************************************************************)
(* The API of the job state machine with the tasks behind it, recording    *)
(* what each operation reported to its caller.                             *)
(***************************************************************************)
InitApi == Start(MaxStartWorkers, MaxPolls, MaxCalls, TRUE)

NextApi ==
  \/ \E c \in Cities : queue_research(c)
  \/ \E c \in Cities : create_research_job(c)
  \/ \E j \in JobIds : run_research_job(j)
  \/ \E j \in JobIds : delete_job(j)
  \/ \E s \in DOMAIN starts : StartBegin(s)
  \/ \E s \in DOMAIN starts : StartCall(s)
  \/ \E s \in DOMAIN starts : StartSave(s)
  \/ \E s \in DOMAIN starts : StartExcept(s)
  \/ \E p \in DOMAIN polls : PollSelect(p)
  \/ \E p \in DOMAIN polls : PollJob(p)
  \/ \E p \in DOMAIN polls : PollProcess(p)
  \/ \E p \in DOMAIN polls : PollReturn(p)

SpecApi == InitApi /\ [][NextApi]_vars

(***************************************************************************)
(* Reprocessing, with the jobs the start path and the poller hand to it,   *)
(* recording what each operation reported to its caller.                   *)
(***************************************************************************)
NextReprocess ==
  \/ \E c \in Cities : queue_research(c)
  \/ \E j \in JobIds : run_research_job(j)
  \/ \E s \in DOMAIN starts : StartBegin(s)
  \/ \E s \in DOMAIN starts : StartCall(s)
  \/ \E s \in DOMAIN starts : StartSave(s)
  \/ \E s \in DOMAIN starts : StartExcept(s)
  \/ \E p \in DOMAIN polls : PollSelect(p)
  \/ \E p \in DOMAIN polls : PollJob(p)
  \/ \E p \in DOMAIN polls : PollProcess(p)
  \/ \E p \in DOMAIN polls : PollReturn(p)
  \/ \E j \in JobIds : reprocess_job(j)

SpecReprocess == InitApi /\ [][NextReprocess]_vars

(***************************************************************************)
(* The three background operations and where their failures go: the start  *)
(* task, the poller, reprocess_job called as a function (the admin         *)
(* actions, a shell) and reprocess_job behind the API's endpoint.          *)
(***************************************************************************)
NextFailures ==
  \/ \E c \in Cities : queue_research(c)
  \/ \E s \in DOMAIN starts : StartBegin(s)
  \/ \E s \in DOMAIN starts : StartCall(s)
  \/ \E s \in DOMAIN starts : StartSave(s)
  \/ \E s \in DOMAIN starts : StartExcept(s)
  \/ \E p \in DOMAIN polls : PollSelect(p)
  \/ \E p \in DOMAIN polls : PollJob(p)
  \/ \E p \in DOMAIN polls : PollProcess(p)
  \/ \E p \in DOMAIN polls : PollReturn(p)
  \/ \E j \in JobIds : reprocess_job(j)
  \/ \E j \in JobIds : reprocess_research_job(j)

SpecFailures == InitApi /\ [][NextFailures]_vars

(***************************************************************************)
(* The ways a job row is removed, with the operations that create jobs and *)
(* move them through their states.                                         *)
(***************************************************************************)
NextDelete ==
  \/ \E c \in Cities : queue_research(c)
  \/ \E c \in Cities : create_research_job(c)
  \/ \E j \in JobIds : run_research_job(j)
  \/ \E j \in JobIds : delete_job(j)
  \/ \E j \in JobIds : admin_delete_model(j)
  \/ \E s \in DOMAIN starts : StartBegin(s)
  \/ \E s \in DOMAIN starts : StartCall(s)
  \/ \E s \in DOMAIN starts : StartSave(s)
  \/ \E s \in DOMAIN starts : StartExcept(s)

SpecDelete == InitApi /\ [][NextDelete]_vars

(***************************************************************************)
(* _parse_research_result on its own: the text is drawn at the start, the  *)
(* answer of the fallback model when the parser runs.                      *)
(***************************************************************************)
parse ==
  /\ parse_result = NoParse
  /\ \E answer \in FallbackAnswers :
       /\ parse_result' = _parse_research_result(raw_text, answer)
       /\ answered' = IF parse_result'.invoked THEN answer ELSE NoAnswer
  /\ UNCHANGED << jobs, nextId, crm, clock, tasks, calls, nCalls, last, tx, setting,
                  raw_text, reconciling >>

InitParse ==
  /\ Workers(MaxStartWorkers, MaxPolls, MaxCalls, TRUE)
  /\ jobs = [j \in JobIds |-> NoJob]
  /\ leads = << >>
  /\ Seeded
  /\ raw_text \in Texts
  /\ parse_result = NoParse
  /\ reconciling = NoReconciling

NextParse == parse

SpecParse == InitParse /\ [][NextParse]_vars

(***************************************************************************)
(* _create_lead_from_research on its own, on a Lead table that holds leads *)
(* entered by hand: every combination of blank and filled fields, with or  *)
(* without a lead type and tags.  last records the candidate, the city and *)
(* the Lead table before the call.                                         *)
(***************************************************************************)
MaxLeads == 1

ExistingLeads ==
  [name : {"Acme"}, company : {"", "OldCo"}, email : {"", "A@X.com"},
   phone : {"", "555"}, instagram : {""}, telegram : {""}, website : {""},
   notes : {"", "old note"}, city : Cities, lead_type : {"", "Club"},
   temperature : {"hot"}, source : {"manual"}, tags : SUBSET {"Queer", "Art"}]

LeadTables == UNION { [1..n -> ExistingLeads] : n \in 0..MaxLeads }

create_lead_from_research(data, city) ==
  LET after == _create_lead_from_research(Tables, data, city)
  IN /\ leads' = after.leads
     /\ leadTypes' = after.leadTypes
     /\ tags' = after.tags
     /\ last' = Reported("_create_lead_from_research",
                         [data |-> data, city |-> city, before |-> leads], after.lead)
  /\ UNCHANGED << jobs, nextId, clock, tasks, calls, nCalls, answered, tx, scope >>

InitReconcile ==
  /\ Workers(MaxStartWorkers, MaxPolls, MaxCalls, TRUE)
  /\ jobs = [j \in JobIds |-> NoJob]
  /\ leads \in LeadTables
  /\ leadTypes = {"Venue", "Club"}
  /\ tags = {"Queer", "Art"}
  /\ raw_text = NoText
  /\ parse_result = NoParse
  /\ reconciling = NoReconciling

NextReconcile ==
  \E data \in Candidates, city \in Cities : create_lead_from_research(data, city)

SpecReconcile == InitReconcile /\ [][NextReconcile]_vars

(***************************************************************************)
(* _find_existing_lead on tables of several leads that differ in their     *)
(* contact fields and city, for candidates that carry several contact      *)
(* fields at once.                                                         *)
(***************************************************************************)
MaxMatchLeads == 2

CandD == [CandA EXCEPT !.phone = "555", !.website = "x.com"]
CandE == [CandB EXCEPT !.phone = "", !.website = "x.com"]

MatchCandidates == {CandA, CandB, CandD, CandE}

ContactLeads ==
  [name : {"Acme"}, company : {""}, email : {"", "A@X.com"},
   phone : {"", "555"}, instagram : {""}, telegram : {""}, website : {"", "x.com"},
   notes : {""}, city : Cities, lead_type : {""},
   temperature : {"hot"}, source : {"manual"}, tags : {{}}]

MatchTables == UNION { [1..n -> ContactLeads] : n \in 0..MaxMatchLeads }

InitMatch ==
  /\ Workers(MaxStartWorkers, MaxPolls, MaxCalls, TRUE)
  /\ jobs = [j \in JobIds |-> NoJob]
  /\ leads \in MatchTables
  /\ leadTypes = {"Venue", "Club"}
  /\ tags = {"Queer", "Art"}
  /\ raw_text = NoText
  /\ parse_result = NoParse
  /\ reconciling = NoReconciling

NextMatch ==
  \E data \in MatchCandidates, city \in Cities : create_lead_from_research(data, city)

SpecMatch == InitMatch /\ [][NextMatch]_vars

(***************************************************************************)
(* _create_lead_from_research step by step, in executions that overlap     *)
(* (two pollers, or a poller and reprocess_job, reconciling at the same    *)
(* time; nothing in the function is a transaction or takes a lock).        *)
(* find_existing is line 391: the lookup, and the Lead object it returned. *)
(* save_lead is lines 393-436: the lead type, then lead.save() of the      *)
(* object found at line 391 or Lead.objects.create, then the tags, which   *)
(* are added to the row's many-to-many set.                                *)
(***************************************************************************)
NoLead == NewLead(CandB, 0, "")

find_existing(r, data, city) ==
  /\ reconciling[r].pc = "idle"
  /\ \E found \in { _find_existing_lead(leads, data, city) } :
       reconciling' = [reconciling EXCEPT ![r] =
                         [pc |-> "found", data |-> data, city |-> city, lead |-> found,
                          read |-> IF found # 0 THEN leads[found] ELSE NoLead]]
  /\ UNCHANGED << jobs, nextId, crm, clock, tasks, calls, nCalls, last, answered, tx,
                  setting, raw_text, parse_result >>

SavedLead(st, data, city, found, read) ==
  LET lead_type == IF data.lead_type # "" THEN Resolved(st.leadTypes, data.lead_type) ELSE ""
      types == IF data.lead_type # "" THEN get_or_create(st.leadTypes, data.lead_type)
               ELSE st.leadTypes
      blanks == FillBlanks(read, data, merge_fields)
      merged == IF blanks.lead_type = "" /\ lead_type # ""
                THEN [blanks EXCEPT !.lead_type = lead_type]
                ELSE blanks
      lead == IF found # 0
              THEN [merged EXCEPT !.tags = st.leads[found].tags]
              ELSE NewLead(data, city, lead_type)
      tagged == AddTags(st.tags, lead, data.tags)
  IN [leads |-> IF found # 0 THEN [st.leads EXCEPT ![found] = tagged.lead]
                ELSE Append(st.leads, tagged.lead),
      leadTypes |-> types,
      tags |-> tagged.table]

save_lead(r) ==
  /\ reconciling[r].pc = "found"
  /\ \E after \in { SavedLead(Tables, reconciling[r].data, reconciling[r].city,
                               reconciling[r].lead, reconciling[r].read) } :
       /\ leads' = after.leads
       /\ leadTypes' = after.leadTypes
       /\ tags' = after.tags
  /\ reconciling' = [reconciling EXCEPT ![r].pc = "done"]
  /\ UNCHANGED << jobs, nextId, clock, tasks, calls, nCalls, last, answered, tx,
                  setting, raw_text, parse_result >>

InitRace ==
  /\ Workers(MaxStartWorkers, MaxPolls, MaxCalls, FALSE)
  /\ jobs = [j \in JobIds |-> NoJob]
  /\ leads \in LeadTables
  /\ leadTypes = {"Venue", "Club"}
  /\ tags = {"Queer", "Art"}
  /\ raw_text = NoText
  /\ parse_result = NoParse
  /\ reconciling = NoReconciling

NextRace ==
  \/ \E r \in DOMAIN reconciling : \E data \in Candidates, city \in Cities :
       find_existing(r, data, city)
  \/ \E r \in DOMAIN reconciling : save_lead(r)

SpecRace == InitRace /\ [][NextRace]_vars

(***************************************************************************)
(* Reprocessing on its own: one job whose poll stored the agent's text and *)
(* failed to parse it, and a Lead table that holds leads entered by hand.  *)
(***************************************************************************)
StoredTexts == {TextJson, TextMarked, TextProse, TextMixed}

StoredJobs ==
  { PollFailed([NewJob(c, RUNNING) EXCEPT !.gemini_interaction_id = 1, !.raw_result = text],
               ParseError) : c \in Cities, text \in StoredTexts }

InitTwice ==
  /\ \E job \in StoredJobs : jobs = [j \in JobIds |-> IF j = 1 THEN job ELSE NoJob]
  /\ nextId = 2
  /\ leads \in LeadTables
  /\ leadTypes = {"Venue", "Club"}
  /\ tags = {"Queer", "Art"}
  /\ queue = << >>
  /\ redelivered = 0
  /\ starts = [s \in 1..MaxStartWorkers |-> Idle]
  /\ polls = [p \in 1..MaxPolls |-> Idle]
  /\ calls = [j \in JobIds |-> IF j = 1 THEN 1 ELSE 0]
  /\ nCalls = 1
  /\ sinceStart = TicksPerMinute
  /\ sinceCall = TicksPerMinute
  /\ last = NoReport
  /\ answered = NoAnswer
  /\ tx = NoTx
  /\ observe = TRUE
  /\ callLimit = MaxCalls
  /\ raw_text = NoText
  /\ parse_result = NoParse
  /\ reconciling = NoReconciling

NextTwice ==
  \/ \E j \in JobIds : reprocess_job(j)
  \/ \E j \in JobIds : reprocess_job_twice(j)

SpecTwice == InitTwice /\ [][NextTwice]_vars

(***************************************************************************)
(* Queueing, starting and polling alone, with one more create-interaction  *)
(* call explored (two jobs can be running at once).                        *)
(***************************************************************************)
InitPoll == Start(MaxStartWorkers, MaxPolls, PollCalls, FALSE)

NextPoll ==
  \/ \E c \in Cities : queue_research(c)
  \/ \E s \in DOMAIN starts : StartBegin(s)
  \/ \E s \in DOMAIN starts : StartCall(s)
  \/ \E s \in DOMAIN starts : StartSave(s)
  \/ \E s \in DOMAIN starts : StartExcept(s)
  \/ \E p \in DOMAIN polls : PollSelect(p)
  \/ \E p \in DOMAIN polls : PollJob(p)
  \/ \E p \in DOMAIN polls : PollProcess(p)
  \/ \E p \in DOMAIN polls : PollReturn(p)

SpecPoll == InitPoll /\ [][NextPoll]_vars

(***************************************************************************)
(* _poll_and_process called on a job row of any status, as its unit tests  *)
(* call it: the caller reads row j and hands the object to the function.   *)
(* poll_research_jobs, the only caller in the program, hands it rows it    *)
(* read as running.  One such call is followed to its end, with the        *)
(* request handlers and the start task running beside it.                  *)
(***************************************************************************)
_poll_and_process(p, j) ==
  /\ FreeSlot(polls, p)
  /\ Exists(j)
  /\ polls' = [polls EXCEPT ![p] =
                 [pc |-> "loop", todo |-> << [id |-> j, job |-> jobs[j]] >>,
                  cur |-> NoJob, results |-> NoResults, selected |-> << j >>,
                  polled |-> << >>, ended |-> << >>]]
  /\ UNCHANGED << jobs, nextId, crm, clock, queue, redelivered, starts, calls, nCalls,
                  last, answered, tx, scope >>

NextDirect ==
  \/ \E c \in Cities : queue_research(c)
  \/ \E c \in Cities : create_research_job(c)
  \/ \E s \in DOMAIN starts : StartBegin(s)
  \/ \E s \in DOMAIN starts : StartCall(s)
  \/ \E s \in DOMAIN starts : StartSave(s)
  \/ \E s \in DOMAIN starts : StartExcept(s)
  \/ \E p \in DOMAIN polls : \E j \in JobIds : _poll_and_process(p, j)
  \/ \E p \in DOMAIN polls : PollJob(p)
  \/ \E p \in DOMAIN polls : PollProcess(p)

SpecDirect == Init /\ [][NextDirect]_vars

(***************************************************************************)
(* Two invocations of poll_research_jobs that overlap (the periodic task   *)
(* fires again, or is delivered to a second worker, while an earlier run   *)
(* is still polling), beside queueing and the start task.                  *)
(***************************************************************************)
OverlapPolls == 2

InitOverlap == Start(MaxStartWorkers, OverlapPolls, MaxCalls, FALSE)

NextOverlap ==
  \/ \E c \in Cities : queue_research(c)
  \/ \E s \in DOMAIN starts : StartBegin(s)
  \/ \E s \in DOMAIN starts : StartCall(s)
  \/ \E s \in DOMAIN starts : StartSave(s)
  \/ \E s \in DOMAIN starts : StartExcept(s)
  \/ \E p \in DOMAIN polls : PollSelect(p)
  \/ \E p \in DOMAIN polls : PollJob(p)
  \/ \E p \in DOMAIN polls : PollProcess(p)
  \/ \E p \in DOMAIN polls : PollReturn(p)

SpecOverlap == InitOverlap /\ [][NextOverlap]_vars

(***************************************************************************)
(* The start path with its clock, on a pool of concurrent workers and a    *)
(* broker that may deliver a message twice.                                *)
(***************************************************************************)
InitRate == Start(RaceWorkers, MaxPolls, RaceCalls, FALSE)

NextRate ==
  \/ \E c \in Cities : queue_research(c)
  \/ \E j \in JobIds : run_research_job(j)
  \/ Redeliver
  \/ Tick
  \/ \E s \in DOMAIN starts : RateLimitedStartBegin(s)
  \/ \E s \in DOMAIN starts : TimedStartCall(s)
  \/ \E s \in DOMAIN starts : StartSave(s)
  \/ \E s \in DOMAIN starts : StartExcept(s)

SpecRate == InitRate /\ [][NextRate]_vars

(***************************************************************************)
(* The start task on a pool of concurrent workers and a broker that may    *)
(* deliver a message twice, with the operations that create and queue      *)
(* jobs, recording what each operation reported to its caller.             *)
(***************************************************************************)
InitStart == Start(RaceWorkers, MaxPolls, RaceCalls, TRUE)

NextStart ==
  \/ \E c \in Cities : queue_research(c)
  \/ \E c \in Cities : create_research_job(c)
  \/ \E j \in JobIds : run_research_job(j)
  \/ \E j \in JobIds : admin_run_job(j)
  \/ \E j \in JobIds : admin_run_job_single(j)
  \/ Redeliver
  \/ \E s \in DOMAIN starts : StartBegin(s)
  \/ \E s \in DOMAIN starts : StartCall(s)
  \/ \E s \in DOMAIN starts : StartSave(s)
  \/ \E s \in DOMAIN starts : StartExcept(s)

SpecStart == InitStart /\ [][NextStart]_vars

(***************************************************************************)
(* Queueing through requests and the start path, with every step of a      *)
(* start task and the commit of a request eventually taken.  At most       *)
(* MaxJobs jobs are ever created, so the calls explored never run out.     *)
(***************************************************************************)
InitFair == Start(MaxStartWorkers, MaxPolls, MaxJobs, FALSE)

NextFair ==
  \/ \E c \in Cities : request_queue_research(c)
  \/ commit_request
  \/ Redeliver
  \/ \E s \in DOMAIN starts : StartBegin(s)
  \/ \E s \in DOMAIN starts : StartCall(s)
  \/ \E s \in DOMAIN starts : StartSave(s)
  \/ \E s \in DOMAIN starts : StartExcept(s)

SpecFair ==
  /\ InitFair
  /\ [][NextFair]_vars
  /\ WF_vars(commit_request)
  /\ WF_vars(\E s \in StartSlots : StartBegin(s))
  /\ WF_vars(\E s \in StartSlots : StartCall(s))
  /\ WF_vars(\E s \in StartSlots : StartSave(s))
  /\ WF_vars(\E s \in StartSlots : StartExcept(s))

(***************************************************************************)
(* C1: in every reachable state, whatever the interleaving of the          *)
(* operations, each city has at most one job whose status is pending or    *)
(* running.                                                                *)
(***************************************************************************)
OneActiveJobPerCity == \A c \in Cities : Cardinality(ActiveJobs(c)) <= 1

OneActiveJobPerCityWitness ==
  \E c \in Cities : \E j, k \in JobsOfCity(c) :
    /\ j # k
    /\ jobs[j].status \in {PENDING, RUNNING}
    /\ jobs[k].status \in {NOT_STARTED, FAILED}

ScenarioA ==
  [][\A c \in Cities : \A j \in JobIds :
       (jobs[j].city = c /\ jobs[j].status = NOT_STARTED /\ queue_research(c)) =>
         IF \E k \in JobIds : jobs[k].city = c /\ jobs[k].status \in {PENDING, RUNNING}
         THEN last'.res = "HttpError400" /\ jobs' = jobs /\ queue' = queue
         ELSE /\ last'.res = "pending"
              /\ jobs'[j] = jobs[j]
              /\ jobs'[nextId] = NewJob(c, PENDING)
              /\ queue' = Append(queue, nextId)]_vars

ScenarioAWitness ==
  \E c \in Cities : \E j, k \in JobsOfCity(c) :
    /\ jobs[j].status = NOT_STARTED
    /\ jobs[k].status = PENDING
    /\ j < k
    /\ queue = << k >>
    /\ last = [op |-> "queue_research", arg |-> c, res |-> "HttpError400"]

(***************************************************************************)
(* C3, as stated: with a job of a city in not_started, a queue_research of *)
(* the city that succeeds makes that job pending.                          *)
(***************************************************************************)
ScenarioAJobBecomesPending ==
  [][\A c \in Cities : \A j \in JobIds :
       (/\ jobs[j].city = c
        /\ jobs[j].status = NOT_STARTED
        /\ queue_research(c)
        /\ last'.res = "pending") => jobs'[j].status = PENDING]_vars

(***************************************************************************)
(* C4: run_job through each of its three entry points, on a job in         *)
(* not_started or failed (of a city that has no active job), sets the      *)
(* status to pending, clears the interaction handle and the error and      *)
(* enqueues one start task for the job; on a job in another status it      *)
(* changes no job and enqueues nothing.                                    *)
(***************************************************************************)
RunJobQueuesCleanJob ==
  [][\A j \in JobIds :
       (run_research_job(j) \/ admin_run_job(j) \/ admin_run_job_single(j)) =>
         IF jobs[j].status \in {NOT_STARTED, FAILED}
         THEN (\A k \in JobIds : jobs[k].city = jobs[j].city =>
                                   jobs[k].status \notin {PENDING, RUNNING}) =>
                /\ jobs'[j].status = PENDING
                /\ jobs'[j].gemini_interaction_id = 0
                /\ jobs'[j].error = ""
                /\ queue' = Append(queue, j)
         ELSE jobs' = jobs /\ queue' = queue]_vars

(***************************************************************************)
(* C5: between two clearings of its interaction handle, at most one        *)
(* create-interaction call is issued for a job, including when its start   *)
(* message is delivered twice and the two executions interleave.           *)
(***************************************************************************)
AtMostOneCreateCallPerJob == \A j \in JobIds : calls[j] <= 1

(***************************************************************************)
(* C6: a create-interaction call is issued only when a minute has passed   *)
(* since the previous one: no one-minute window holds two calls.           *)
(***************************************************************************)
OneCreateCallPerMinute == [][nCalls' # nCalls => sinceCall >= TicksPerMinute]_vars

(***************************************************************************)
(* C7: under fair execution of the queued start tasks, a job that is       *)
(* pending eventually is pending no more.                                  *)
(***************************************************************************)
PendingEventuallyLeaves ==
  \A j \in JobIds : (jobs[j].status = PENDING) ~> (jobs[j].status # PENDING)

(***************************************************************************)
(* C8: when the text a poll obtained from a completed interaction parses,  *)
(* the poll leaves the job with raw_result the text obtained, result the   *)
(* parsed leads, leads_created the number of candidate leads, status       *)
(* completed and completed_at set, and every candidate lead has a lead in  *)
(* the table.                                                              *)
(***************************************************************************)
PollCompletedJob ==
  [][\A p \in DOMAIN polls :
       (polls[p].pc = "process" /\ polls'[p].pc # "process") =>
         LET text == polls[p].cur.raw_result
             id == Head(polls[p].todo).id
             parsed == _parse_research_result(text, answered')
         IN parsed.ok =>
              /\ jobs'[id].raw_result = text
              /\ jobs'[id].result = << parsed.leads >>
              /\ jobs'[id].leads_created = Len(parsed.leads)
              /\ jobs'[id].status = COMPLETED
              /\ jobs'[id].completed_at = "set"
              /\ \A i \in 1..Len(parsed.leads) :
                   _find_existing_lead(leads', parsed.leads[i], polls[p].cur.city) # 0]_vars

PollCompletedJobWitness ==
  \E p \in DOMAIN polls : \E i \in 1..Len(running_jobs) + 1 :
    /\ polls[p].pc = "done"
    /\ Len(polls[p].polled) = i
    /\ polls[p].ended[i] = COMPLETED
    /\ jobs[polls[p].polled[i]].status = COMPLETED
    /\ jobs[polls[p].polled[i]].raw_result = TextMarked
    /\ jobs[polls[p].polled[i]].leads_created = 1
    /\ Len(leads) = 1

PollsEachRunningJobOnce ==
  /\ [](\A p \in DOMAIN polls :
          polls[p].pc = "done" =>
            /\ polls[p].polled = polls[p].selected
            /\ polls[p].results.processed = Len(polls[p].polled)
            /\ polls[p].results.completed =
                 Cardinality({ i \in 1..Len(polls[p].ended) : polls[p].ended[i] = COMPLETED })
            /\ polls[p].results.failed =
                 Cardinality({ i \in 1..Len(polls[p].ended) : polls[p].ended[i] = FAILED }))
  /\ [][\A p \in DOMAIN polls :
          /\ (polls[p].pc = "idle" /\ polls'[p].pc # "idle") =>
               /\ { polls'[p].selected[i] : i \in 1..Len(polls'[p].selected) } =
                    { j \in JobIds : jobs[j].status = RUNNING }
               /\ Len(polls'[p].selected) =
                    Cardinality({ j \in JobIds : jobs[j].status = RUNNING })
          /\ (polls[p].pc \in {"loop", "process"} /\ polls'[p] # polls[p]) =>
               /\ \A j \in JobIds : j # Head(polls[p].todo).id => jobs'[j] = jobs[j]
               /\ polls'[p].pc = "process" \/ polls'[p].todo = Tail(polls[p].todo)]_vars

PollsEachRunningJobOnceWitness ==
  \E p \in DOMAIN polls :
    /\ polls[p].pc = "done"
    /\ Len(polls[p].polled) = 2
    /\ polls[p].ended[1] = FAILED
    /\ polls[p].ended[2] = COMPLETED
    /\ polls[p].results = [processed |-> 2, completed |-> 1, failed |-> 1]

(***************************************************************************)
(* C11: reprocess_job on a job that has no raw_result is rejected with an  *)
(* error and changes no job and no lead, lead type or tag.                 *)
(***************************************************************************)
ReprocessWithoutRawResultRejected ==
  [][\A j \in JobIds :
       (jobs[j].raw_result = NoText /\ UNCHANGED tasks /\ reprocess_job(j)) =>
         /\ last'.res = "no raw_result"
         /\ jobs' = jobs
         /\ leads' = leads
         /\ leadTypes' = leadTypes
         /\ tags' = tags]_vars

ReprocessWithoutRawResultRejectedWitness ==
  /\ last.op = "reprocess_job"
  /\ last.res = "no raw_result"
  /\ jobs[last.arg].status = FAILED
  /\ jobs[last.arg].error = "traceback"

(***************************************************************************)
(* C12: reprocess_job on a job whose raw_result parses leaves the job      *)
(* completed, with result the parsed leads, leads_created the number of    *)
(* candidate leads, error cleared, completed_at set and raw_result as it   *)
(* was; every candidate has a lead in the table; no create-interaction     *)
(* call is issued and no poll or start task moves.                         *)
(***************************************************************************)
ReprocessCompletesJob ==
  [][\A j \in JobIds :
       (jobs[j].raw_result # NoText /\ reprocess_job(j)) =>
         LET parsed == _parse_research_result(jobs[j].raw_result, answered')
         IN parsed.ok =>
              /\ last'.res = "completed"
              /\ jobs'[j].status = COMPLETED
              /\ jobs'[j].result = << parsed.leads >>
              /\ jobs'[j].leads_created = Len(parsed.leads)
              /\ jobs'[j].error = ""
              /\ jobs'[j].completed_at = "set"
              /\ jobs'[j].raw_result = jobs[j].raw_result
              /\ jobs'[j].gemini_interaction_id = jobs[j].gemini_interaction_id
              /\ \A i \in 1..Len(parsed.leads) :
                   _find_existing_lead(leads', parsed.leads[i], jobs[j].city) # 0
              /\ nCalls' = nCalls
              /\ calls' = calls
              /\ polls' = polls
              /\ starts' = starts]_vars

ReprocessCompletesJobWitness ==
  /\ last.op = "reprocess_job"
  /\ last.res = "completed"
  /\ answered = FallbackJson
  /\ jobs[last.arg].status = COMPLETED
  /\ jobs[last.arg].raw_result = TextProse
  /\ jobs[last.arg].leads_created = 2
  /\ jobs[last.arg].error = ""

(***************************************************************************)
(* C13: delete_job removes the job exactly when its status is not_started, *)
(* completed or failed and rejects a pending or running job with an error, *)
(* leaving it in place; and no job row is removed, by any operation, while *)
(* its status is pending or running.                                       *)
(***************************************************************************)
NoActiveJobRemoved ==
  [][\A j \in JobIds :
       /\ delete_job(j) =>
            IF jobs[j].status \in {NOT_STARTED, COMPLETED, FAILED}
            THEN jobs'[j] = NoJob /\ last'.res = "deleted"
            ELSE jobs'[j] = jobs[j] /\ last'.res = "HttpError400"
       /\ (Exists(j) /\ jobs'[j] = NoJob) =>
            jobs[j].status \notin {PENDING, RUNNING}]_vars

(***************************************************************************)
(* C14: the parser's layers.  A text that is valid JSON for the schema is  *)
(* returned by strategy 1 and the fallback model is not asked.  A text     *)
(* that starts with prose and contains the marker is returned by strategy  *)
(* 2, without the fallback model, when what follows the first marker is    *)
(* the items and at most one closing fence (whitespace aside); when        *)
(* anything else follows the first marker, the fallback model is asked.    *)
(* A text with prose and no marker always has the fallback model asked.    *)
(***************************************************************************)
AfterMarker(text) ==
  SelectSeq(SubSeq(text, find(text, "marker") + 1, Len(text)), NotSpace)

HasProse(text) == \E i \in 1..Len(text) : text[i] = "prose"

PrefixedWithProse(text) == text # << >> /\ text[1] = "prose"

Asked(p) == p.invoked /\ p.strategy \in {0, 3} /\ answered # NoAnswer

Matched == _find_existing_lead(last.arg.before, last.arg.data, last.arg.city)

MergeNeverOverwrites ==
  (last.op = "_create_lead_from_research" /\ Matched # 0) =>
    LET old == last.arg.before[Matched]
        new == leads[Matched]
        data == last.arg.data
    IN /\ last.res = Matched
       /\ \A F \in {"company", "email", "phone", "instagram", "telegram", "website", "notes"} :
            new[F] = IF old[F] # "" THEN old[F] ELSE data[F]
       /\ IF old.lead_type # "" THEN new.lead_type = old.lead_type
          ELSE IF data.lead_type = "" THEN new.lead_type = ""
          ELSE new.lead_type \in leadTypes /\ iexact(new.lead_type, data.lead_type)
       /\ new.name = old.name
       /\ new.city = old.city
       /\ new.temperature = old.temperature
       /\ new.source = old.source
       /\ Len(leads) = Len(last.arg.before)
       /\ \A i \in 1..Len(leads) : i # Matched => leads[i] = last.arg.before[i]

MergeNeverOverwritesWitness ==
  /\ last.op = "_create_lead_from_research"
  /\ Matched # 0
  /\ last.arg.data = CandC
  /\ last.arg.before[Matched].phone = "555"
  /\ last.arg.before[Matched].notes = ""
  /\ last.arg.before[Matched].lead_type = "Club"
  /\ leads[Matched].phone = "555"
  /\ leads[Matched].notes = "new note"
  /\ leads[Matched].lead_type = "Club"
  /\ leads[Matched].name = "Acme"

(***************************************************************************)
(* C16: when _create_lead_from_research matches an existing lead, the      *)
(* lead's tags afterwards are exactly its tags before together with the    *)
(* tags of the Tag table that the candidate's tag names resolve to without *)
(* regard to case; and no reconciliation removes a tag from any lead.      *)
(***************************************************************************)
TagsAdditive ==
  [][/\ \A i \in 1..Len(leads) : i <= Len(leads') /\ leads[i].tags \subseteq leads'[i].tags
     /\ \A data \in Candidates, city \in Cities :
          LET found == _find_existing_lead(leads, data, city)
          IN (found # 0 /\ create_lead_from_research(data, city)) =>
               /\ leads'[found].tags \subseteq tags'
               /\ leads'[found].tags =
                    leads[found].tags \cup
                      { n \in tags' : \E k \in 1..Len(data.tags) : iexact(n, data.tags[k]) }]_vars

TagsAdditiveWitness ==
  /\ last.op = "_create_lead_from_research"
  /\ Matched # 0
  /\ last.arg.data = CandC
  /\ last.arg.before[Matched].tags = {"Queer", "Art"}
  /\ leads[Matched].tags = {"Queer", "Art", "New"}

(***************************************************************************)
(* C17: when reprocess_job runs twice in a row on a job, the fallback      *)
(* model answering the same, both runs report the same and leave the same  *)
(* leads_created on the job, and the second run creates no lead: the Lead  *)
(* table has as many rows after the second run as after the first.         *)
(***************************************************************************)
ReprocessTwiceSame ==
  last.op = "reprocess_job twice" =>
    /\ last.res.second.res = last.res.first.res
    /\ last.res.second.leads_created = last.res.first.leads_created
    /\ last.res.second.leads = last.res.first.leads
    /\ Len(leads) = last.res.first.leads

ReprocessTwiceSameWitness ==
  /\ last.op = "reprocess_job twice"
  /\ jobs[last.arg].raw_result = TextMixed
  /\ last.res.before = 1
  /\ last.res.first = [res |-> "completed", leads_created |-> 2, leads |-> 2]
  /\ last.res.second = [res |-> "completed", leads_created |-> 2, leads |-> 2]

(***************************************************************************)
(* C18: a start_research_job task that finds its job with a non-empty      *)
(* interaction handle, or in status running, completed or failed, issues   *)
(* no create-interaction call and writes nothing: every job row is as it   *)
(* was, the task is over and it reported already_started or skipped.       *)
(***************************************************************************)
StartSkipsStartedJob ==
  [][\A s \in DOMAIN starts :
       (/\ queue # << >>
        /\ Exists(Head(queue))
        /\ \/ jobs[Head(queue)].gemini_interaction_id # 0
           \/ jobs[Head(queue)].status \in {RUNNING, COMPLETED, FAILED}
        /\ StartBegin(s)) =>
         /\ jobs' = jobs
         /\ nCalls' = nCalls
         /\ calls' = calls
         /\ starts' = starts
         /\ last'.op = "start_research_job"
         /\ last'.arg = Head(queue)
         /\ last'.res = IF jobs[Head(queue)].gemini_interaction_id # 0
                        THEN "already_started" ELSE "skipped"]_vars

StartSkipsStartedJobWitness ==
  /\ last.op = "start_research_job"
  /\ last.res = "skipped"
  /\ jobs[last.arg].status = FAILED
  /\ jobs[last.arg].gemini_interaction_id = 0
  /\ \A s \in DOMAIN starts : starts[s].pc = "idle"

(***************************************************************************)
(* C19: when a start_research_job task found its job pending or            *)
(* not_started with an empty handle and its create-interaction call        *)
(* returned, the task ends with the job stored running, with the returned  *)
(* handle, an empty error and completed_at null, and reports running.      *)
(***************************************************************************)
StartSuccessEndsRunning ==
  [][\A s \in DOMAIN starts :
       (starts[s].pc = "save" /\ StartSave(s)) =>
         /\ jobs'[starts[s].id].status = RUNNING
         /\ jobs'[starts[s].id].gemini_interaction_id = starts[s].job.gemini_interaction_id
         /\ jobs'[starts[s].id].gemini_interaction_id # 0
         /\ jobs'[starts[s].id].error = ""
         /\ jobs'[starts[s].id].completed_at = "null"
         /\ last'.res = "running"]_vars

(***************************************************************************)
(* C20: when the create-interaction call of a start task raises, the task  *)
(* ends with the job stored failed, with the traceback as its error,       *)
(* completed_at set and an empty handle; the exception reaches the caller  *)
(* and no start message is enqueued and no further call is made by the     *)
(* task.  A failed job becomes pending only in a step of run_research_job  *)
(* or of the admin's run_job actions on that job.                          *)
(***************************************************************************)
StartFailureEndsFailed ==
  [][/\ \A s \in DOMAIN starts :
          (starts[s].pc = "except" /\ StartExcept(s)) =>
            /\ jobs'[starts[s].id].status = FAILED
            /\ jobs'[starts[s].id].error = "traceback"
            /\ jobs'[starts[s].id].completed_at = "set"
            /\ jobs'[starts[s].id].gemini_interaction_id = 0
            /\ last' = [op |-> "start_research_job", arg |-> starts[s].id, res |-> "raised"]
            /\ starts'[s] = Idle
            /\ queue' = queue
            /\ nCalls' = nCalls
     /\ \A j \in JobIds :
          (jobs[j].status = FAILED /\ jobs'[j].status = PENDING) =>
            /\ run_research_job(j) \/ admin_run_job(j) \/ admin_run_job_single(j)
            /\ last'.res = "queued"]_vars

StartFailureEndsFailedWitness ==
  /\ last = [op |-> "start_research_job", arg |-> 1, res |-> "raised"]
  /\ jobs[1].status = FAILED
  /\ jobs[1].error = "traceback"
  /\ jobs[1].completed_at = "set"
  /\ jobs[1].gemini_interaction_id = 0
  /\ queue = << >>

(***************************************************************************)
(* C21: a poll that observes the external status failed or cancelled, or   *)
(* in which an exception is raised while polling or processing (the call   *)
(* raising, a completed interaction without text output, a save rejected   *)
(* by the database, a parse failure), ends with the job saved as failed,   *)
(* its error naming the external status or the exception, completed_at     *)
(* set; and the task goes on with the next job, counting one failure:      *)
(* nothing is raised to the caller of poll.                                *)
(***************************************************************************)
PollEndsFailed(p, error) ==
  LET id == Head(polls[p].todo).id
  IN /\ jobs'[id].status = FAILED
     /\ jobs'[id].error = error
     /\ jobs'[id].completed_at = "set"
     /\ polls'[p].pc \in {"loop", "done"}
     /\ polls'[p].polled = Append(polls[p].polled, id)
     /\ polls'[p].results.failed = polls[p].results.failed + 1
     /\ polls'[p].results.processed = polls[p].results.processed + 1

PollErrorText(status, text_output) ==
  CASE status = "raises" -> "API error"
    [] status = "failed" -> "Gemini status: failed"
    [] status = "cancelled" -> "Gemini status: cancelled"
    [] status = "completed" /\ text_output = NoText -> "No text output in response"
    [] OTHER -> "IntegrityError"

PollSaveRejected(p, status, text_output) ==
  LET job == Head(polls[p].todo).job
      id == Head(polls[p].todo).id
  IN \/ /\ status = "in_progress"
        /\ job.status # RUNNING
        /\ SaveFails(jobs, id, [job EXCEPT !.status = RUNNING])
     \/ /\ status = "completed"
        /\ text_output # NoText
        /\ SaveFails(jobs, id, [job EXCEPT !.raw_result = text_output])

PollFailureRecorded ==
  [][\A p \in DOMAIN polls :
       /\ polls[p].pc = "loop" =>
            \A status \in InteractionStatuses : \A text_output \in OutputsOf(status) :
              ( /\ PollJob(p)
                /\ PollObserves(p, status, text_output)
                /\ \/ status \in {"raises", "failed", "cancelled"}
                   \/ status = "completed" /\ text_output = NoText
                   \/ PollSaveRejected(p, status, text_output) )
              => PollEndsFailed(p, PollErrorText(status, text_output))
       /\ polls[p].pc = "process" =>
            \A answer \in FallbackAnswers :
              ( /\ PollProcess(p)
                /\ answered' = answer
                /\ ~_parse_research_result(polls[p].cur.raw_result, answer).ok )
              => PollEndsFailed(p, ParseError)]_vars

PollFailureRecordedWitness ==
  \E p \in DOMAIN polls :
    /\ polls[p].pc = "done"
    /\ \E i \in 1..Len(polls[p].polled) :
         /\ polls[p].ended[i] = FAILED
         /\ jobs[polls[p].polled[i]].status = FAILED
         /\ jobs[polls[p].polled[i]].error = "Gemini status: cancelled"
         /\ jobs[polls[p].polled[i]].completed_at = "set"
    /\ polls[p].results.failed >= 1

(***************************************************************************)
(* C22: when poll observes an external status that is neither completed,   *)
(* failed nor cancelled, a job whose local status is running is left       *)
(* entirely unchanged (nothing saved, no lead created, nothing counted as  *)
(* failed); a job whose local status is not running is saved as running    *)
(* with every other field as it was read, unless the database rejects the  *)
(* save because another job of the city is active, in which case the job   *)
(* is saved as failed.                                                     *)
(***************************************************************************)
PollGoesOn(p) ==
  /\ polls'[p].pc \in {"loop", "done"}
  /\ polls'[p].results = [polls[p].results EXCEPT !.processed = @ + 1]
  /\ UNCHANGED crm

StillRunningKept(p, rejected) ==
  LET job == Head(polls[p].todo).job
      id == Head(polls[p].todo).id
  IN IF job.status = RUNNING
     THEN UNCHANGED jobs /\ PollGoesOn(p)
     ELSE IF rejected /\ SaveFails(jobs, id, [job EXCEPT !.status = RUNNING])
     THEN jobs' = [jobs EXCEPT ![id] = [job EXCEPT !.status = FAILED,
                                                  !.error = "IntegrityError",
                                                  !.completed_at = "set"]]
     ELSE /\ jobs' = [jobs EXCEPT ![id] = [job EXCEPT !.status = RUNNING]]
          /\ PollGoesOn(p)

FailureRecorded(j, error) ==
  /\ jobs'[j].status = FAILED
  /\ jobs'[j].error = error

ReprocessRaised(op, j) ==
  /\ last'.op = op
  /\ last'.arg = j
  /\ UNCHANGED tasks
  /\ jobs[j].raw_result # NoText
  /\ ~_parse_research_result(jobs[j].raw_result, answered').ok

DirectSucceeds(text) ==
  \E k \in {"marker", "key"} : \E tok \in ItemTokens :
    SelectSeq(text, NotSpace) = << "{", k, tok, "}" >>

MarkerSucceeds(text) ==
  /\ find(text, "marker") # -1
  /\ \E tok \in ItemTokens : AfterMarker(text) \in { << tok >>, << tok, "fence" >> }

FallbackSucceeds(answer) ==
  /\ answer \notin {NoAnswer, FallbackRaises, NoText}
  /\ DirectSucceeds(answer)

FallbackCauses ==
  {"APIError", "Gemini returned empty response when parsing raw text", "ValidationError"}

ParserStrategyOrder ==
  parse_result # NoParse =>
    /\ parse_result.invoked <=> (~DirectSucceeds(raw_text) /\ ~MarkerSucceeds(raw_text))
    /\ parse_result.invoked <=> (answered # NoAnswer)
    /\ parse_result.ok <=> \/ DirectSucceeds(raw_text)
                           \/ MarkerSucceeds(raw_text)
                           \/ FallbackSucceeds(answered)
    /\ parse_result.strategy =
         IF DirectSucceeds(raw_text) THEN 1
         ELSE IF MarkerSucceeds(raw_text) THEN 2
         ELSE IF FallbackSucceeds(answered) THEN 3 ELSE 0
    /\ parse_result.strategy = 1 => parse_result.leads = model_validate_json(raw_text).leads
    /\ parse_result.strategy = 2 => parse_result.leads = ItemsOf(AfterMarker(raw_text)[1])
    /\ parse_result.strategy = 3 => parse_result.leads = model_validate_json(answered).leads
    /\ parse_result.ok => parse_result.raised = NoException
    /\ ~parse_result.ok =>
         /\ parse_result.raised.type = "ValueError"
         /\ parse_result.raised.message = ParseError
         /\ parse_result.raised.cause \in FallbackCauses
         /\ parse_result.raised.cause = _parse_with_gemini_fallback(answered).error

ParserStrategyOrderWitness ==
  /\ raw_text = << "prose", "marker", "items1", "}" >>
  /\ parse_result.strategy = 0
  /\ parse_result.invoked
  /\ answered = NoText
  /\ parse_result.raised = ParseFailure("Gemini returned empty response when parsing raw text")

(***************************************************************************)
(* C25: the lead a candidate is reconciled with is found by the first of   *)
(* email, phone, instagram, telegram, website for which the candidate has  *)
(* a value and some lead of any city has the same value, case-insensitive; *)
(* only when no contact field matches, by name (case-insensitive) among    *)
(* the leads of the same city; only when nothing matches is a lead         *)
(* created.  An email match with lead A wins over a phone match with a     *)
(* different lead B.                                                       *)
(***************************************************************************)
MatchesOn(db, data, field) ==
  { i \in 1..Len(db) : data[field] # "" /\ Lower(db[i][field]) = Lower(data[field]) }

MatchesOnName(db, data, city) ==
  { i \in 1..Len(db) : Lower(db[i].name) = Lower(data.name) /\ db[i].city = city }

FirstMatches(db, data, city) ==
  IF MatchesOn(db, data, "email") # {} THEN MatchesOn(db, data, "email")
  ELSE IF MatchesOn(db, data, "phone") # {} THEN MatchesOn(db, data, "phone")
  ELSE IF MatchesOn(db, data, "instagram") # {} THEN MatchesOn(db, data, "instagram")
  ELSE IF MatchesOn(db, data, "telegram") # {} THEN MatchesOn(db, data, "telegram")
  ELSE IF MatchesOn(db, data, "website") # {} THEN MatchesOn(db, data, "website")
  ELSE MatchesOnName(db, data, city)

MatchingOrdered ==
  last.op = "_create_lead_from_research" =>
    LET db == last.arg.before
        found == FirstMatches(db, last.arg.data, last.arg.city)
    IN IF found # {}
       THEN /\ last.res \in found
            /\ \A i \in found : i <= last.res
            /\ Len(leads) = Len(db)
       ELSE /\ last.res = Len(db) + 1
            /\ Len(leads) = Len(db) + 1
            /\ leads[last.res].name = last.arg.data.name
            /\ leads[last.res].city = last.arg.city

MatchingOrderedWitness ==
  /\ last.op = "_create_lead_from_research"
  /\ LET db == last.arg.before
         data == last.arg.data
     IN /\ MatchesOn(db, data, "email") # {}
        /\ MatchesOn(db, data, "phone") # {}
        /\ MatchesOn(db, data, "email") \cap MatchesOn(db, data, "phone") = {}
        /\ last.res \in MatchesOn(db, data, "email")
        /\ \E i \in MatchesOn(db, data, "phone") : i > last.res

(***************************************************************************)
(* C26: a job that is running changes its status, or is removed, only in a *)
(* step of the poller on that job; no step of queue_research,              *)
(* create_research_job, run_job, the start task, reprocess_job or a        *)
(* deletion changes the status of a running job or removes it.             *)
(***************************************************************************)
PolledIn(j) ==
  \E p \in DOMAIN polls :
    /\ polls[p].pc \in {"loop", "process"}
    /\ Head(polls[p].todo).id = j
    /\ PollJob(p) \/ PollProcess(p)

RunningLeftOnlyByPoll ==
  [][\A j \in JobIds :
       (jobs[j].status = RUNNING /\ jobs'[j].status # RUNNING) => PolledIn(j)]_vars

(***************************************************************************)
(* C27: whenever _poll_and_process is applied to a job, the stored status  *)
(* of that job is running at that moment, also when two invocations of     *)
(* poll_research_jobs overlap or other operations run between the          *)
(* selection of the running jobs and the poll of the job.                  *)
(***************************************************************************)
PolledOnlyWhileRunning ==
  [][\A p \in DOMAIN polls :
       (polls[p].pc = "loop" /\ PollJob(p)) =>
         jobs[Head(polls[p].todo).id].status = RUNNING]_vars

(***************************************************************************)
(* C28: no lost update on a job: whenever the poller saves a job, the      *)
(* stored row is still the one its outcome was computed from (the row as   *)
(* selected, or as the poller itself saved it with the raw result), so the *)
(* save overwrites no status or handle written by another operation in     *)
(* between.                                                                *)
(***************************************************************************)
PollSavesOntoRowRead ==
  [][\A p \in DOMAIN polls :
       /\ (polls[p].pc = "loop" /\ PollJob(p) /\ jobs' # jobs)
            => jobs[Head(polls[p].todo).id] = Head(polls[p].todo).job
       /\ (polls[p].pc = "process" /\ PollProcess(p))
            => jobs[Head(polls[p].todo).id] = polls[p].cur]_vars

(***************************************************************************)
(* C29: reconciliation creates no duplicate lead under concurrent or       *)
(* repeated delivery: after two overlapping executions have reconciled the *)
(* same candidate for the same city, at most one lead created by research  *)
(* carries the candidate's name in that city.                              *)
(***************************************************************************)
CreatedFor(data, city) ==
  { i \in 1..Len(leads) : /\ leads[i].source = "Gemini Deep Research"
                          /\ leads[i].name = data.name
                          /\ leads[i].city = city }

NoDuplicateLead ==
  \A r1, r2 \in DOMAIN reconciling :
    ( /\ r1 # r2
      /\ reconciling[r1].pc = "done"
      /\ reconciling[r2].pc = "done"
      /\ reconciling[r1].data = reconciling[r2].data
      /\ reconciling[r1].city = reconciling[r2].city )
    => Cardinality(CreatedFor(reconciling[r1].data, reconciling[r1].city)) <= 1

(***************************************************************************)
(* C30: in every reachable state a job that is running has a non-empty     *)
(* interaction handle, and a job that is not_started or pending has an     *)
(* empty one.                                                              *)
(***************************************************************************)
HandleMatchesStatus ==
  \A j \in JobIds :
    /\ jobs[j].status = RUNNING => jobs[j].gemini_interaction_id # 0
    /\ jobs[j].status \in {NOT_STARTED, PENDING} => jobs[j].gemini_interaction_id = 0

HandleMatchesStatusWitness ==
  \E j \in JobIds :
    /\ jobs[j].status = PENDING
    /\ jobs[j].gemini_interaction_id = 0
    /\ jobs[j].raw_result # NoText
    /\ jobs[j].completed_at = "set"

====
